---------------------------- MODULE Spec2Model ----------------------------
(***************************************************************************)
(* The 'distance' style expression of mbgl                                 *)
(* (src/mbgl/style/expression/distance.cpp): the segment intersection      *)
(* test, the shortest-distance algorithms, the dispatch over geometry      *)
(* shapes, the argument parser and the expression node (parse, evaluate).  *)
(*                                                                         *)
(* Coordinates are integers on a small grid.  A distance is carried as the *)
(* exact square of the value the code computes, a pair <<num, den>> that   *)
(* stands for num/den: the square root is monotonic, so std::min, '<' and  *)
(* '== 0.' act on the squares as they act on the distances.  <<1, 0>> is   *)
(* +infinity and <<-1, 1>> is the sentinel -1.0 (kept as is, not squared). *)
(***************************************************************************)
EXTENDS Integers, Sequences, FiniteSets

VARIABLES
    pc,          \* position of the operation under way
    line1,       \* shortestDistanceLineToLine: first argument
    line2,       \* shortestDistanceLineToLine: second argument
    i,           \* shortestDistanceLineToLine: outer loop index (0-based)
    j,           \* shortestDistanceLineToLine: inner loop index (0-based)
    dist,        \* shortestDistanceLineToLine: the local 'dist'
    featureGeom, \* calculateDistance: convertGeometry(feature, canonical)
    geoSet,      \* calculateDistance: the reference geometry
    value,       \* Distance::parse: the expression value being parsed
    ctxErrors,   \* ParsingContext: the errors recorded so far
    node,        \* the Distance node parse returned (NoNode: none)
    params,      \* Distance::evaluate: the evaluation context
    result       \* what the operation returned

vars == <<pc, line1, line2, i, j, dist, featureGeom, geoSet, value,
          ctxErrors, node, params, result>>

-----------------------------------------------------------------------------
(* Bounds *)

\* Coordinates range over 0..GridMax on both axes.
GridMax == 2
\* Most vertices of a line string.
MaxVerts == 3

\* Coordinates of the geometries handed to the dispatch layer: 0..DGridMax.
DGridMax == 1
\* Most members of a MultiPoint or MultiLineString.
MaxMembers == 2
\* Most features of a feature collection.
MaxFeatures == 3
\* Longest argument list handed to the parser.
MaxArgs == 4
\* Tile columns range over 0..MaxTile.
MaxTile == 1
\* Turns of a loop on an empty line that are followed one by one.
MaxTurns == 3
\* Largest whole number among the doubles a stray read returns.
MaxStray == 8

Coords == 0..GridMax
GridPoints == {<<x, y>> : x \in Coords, y \in Coords}
DPoints == {<<x, y>> : x \in 0..DGridMax, y \in 0..DGridMax}
\* The points of the geometries of reference documents and tile features.
NodePoints == {<<c, c>> : c \in 0..DGridMax}

\* All sequences over S of length lo..hi.
SeqsOf(S, lo, hi) == UNION {[1..n -> S] : n \in lo..hi}

Nil == "nil"

-----------------------------------------------------------------------------
(* Distances *)

Inf == <<1, 0>>
MinusOne == <<-1, 1>>

\* a < b on doubles that are squares num/den (den = 0: +infinity).
Less(a, b) == a[1] * b[2] < b[1] * a[2]

\* a == b on doubles.
DEq(a, b) == ~Less(a, b) /\ ~Less(b, a)

\* d == 0.
IsZero(d) == d[1] = 0 /\ d[2] # 0

\* std::min(a, b): (b < a) ? b : a
StdMin(a, b) == IF Less(b, a) THEN b ELSE a

-----------------------------------------------------------------------------
(* Local distance metric (mapbox::cheap_ruler::CheapRuler)                 *)

\* CheapRuler(latitude, unit): a linearisation around the anchor latitude.
\* kx shrinks away from the equator as the cosine does, ky does not.
CheapRuler(latitude, unit) ==
    [kx |-> IF latitude = 0 THEN 2 ELSE 1, ky |-> 2, unit |-> unit]

\* ruler.distance(a, b), squared.
RulerDistance(ruler, a, b) ==
    LET dx == (a[1] - b[1]) * ruler.kx
        dy == (a[2] - b[2]) * ruler.ky
    IN  <<dx * dx + dy * dy, 1>>

\* One turn of pointOnLine's loop: the squared distance from p to the
\* nearest point of the segment a-b (t clamped to [0, 1]).
SegmentSqDist(ruler, p, a, b) ==
    LET dx  == (b[1] - a[1]) * ruler.kx
        dy  == (b[2] - a[2]) * ruler.ky
        px  == (p[1] - a[1]) * ruler.kx
        py  == (p[2] - a[2]) * ruler.ky
        len == dx * dx + dy * dy
        dot == px * dx + py * dy
    IN  IF len = 0 \/ dot <= 0 THEN RulerDistance(ruler, p, a)
        ELSE IF dot > len THEN RulerDistance(ruler, p, b)
        ELSE <<(px * px + py * py) * len - dot * dot, len>>

RECURSIVE PointOnLineFrom(_, _, _, _, _)
\* pointOnLine's loop from segment k on, minDist the least so far.
PointOnLineFrom(ruler, line, p, k, minDist) ==
    IF k >= Len(line) THEN minDist
    ELSE LET sqDist == SegmentSqDist(ruler, p, line[k], line[k + 1])
         IN  PointOnLineFrom(ruler, line, p, k + 1,
                             IF Less(sqDist, minDist) THEN sqDist ELSE minDist)

\* ruler.distance(p, get<0>(ruler.pointOnLine(line, p))), squared.  A line
\* with no segment leaves pointOnLine's result at its initial point (0, 0);
\* the dispatch layer is only run here on lines that have a segment
\* whenever it measures a point against a line.
PointOnLine(ruler, line, p) ==
    IF Len(line) < 2 THEN RulerDistance(ruler, p, <<0, 0>>)
    ELSE PointOnLineFrom(ruler, line, p, 1, Inf)

-----------------------------------------------------------------------------
(* Segment intersection test *)

perp(v1, v2) == v1[1] * v2[2] - v1[2] * v2[1]

\* p1 and p2 lie strictly on different sides of the line q1->q2.
twoSided(p1, p2, q1, q2) ==
    LET x1 == p1[1] - q1[1]
        y1 == p1[2] - q1[2]
        x2 == p2[1] - q1[1]
        y2 == p2[2] - q1[2]
        x3 == q2[1] - q1[1]
        y3 == q2[2] - q1[2]
        ret1 == x1 * y3 - x3 * y1
        ret2 == x2 * y3 - x3 * y2
    IN  (ret1 > 0 /\ ret2 < 0) \/ (ret1 < 0 /\ ret2 > 0)

\* The same with the second disjunct left out: only p1 on the positive
\* side and p2 on the negative side count as two-sided.
twoSidedOneSign(p1, p2, q1, q2) ==
    LET x1 == p1[1] - q1[1]
        y1 == p1[2] - q1[2]
        x2 == p2[1] - q1[1]
        y2 == p2[2] - q1[2]
        x3 == q2[1] - q1[1]
        y3 == q2[2] - q1[2]
        ret1 == x1 * y3 - x3 * y1
        ret2 == x2 * y3 - x3 * y2
    IN  ret1 > 0 /\ ret2 < 0

\* lineIntersectLine with that one-signed side test.
lineIntersectLineOneSign(a, b, c, d) ==
    LET vectorP == <<b[1] - a[1], b[2] - a[2]>>
        vectorQ == <<d[1] - c[1], d[2] - c[2]>>
    IN  IF perp(vectorQ, vectorP) = 0 THEN FALSE
        ELSE twoSidedOneSign(a, b, c, d) /\ twoSidedOneSign(c, d, a, b)

\* a, b are the end points of segment 1, c and d those of segment 2.
lineIntersectLine(a, b, c, d) ==
    LET vectorP == <<b[1] - a[1], b[2] - a[2]>>
        vectorQ == <<d[1] - c[1], d[2] - c[2]>>
    IN  IF perp(vectorQ, vectorP) = 0 THEN FALSE
        ELSE twoSided(a, b, c, d) /\ twoSided(c, d, a, b)

-----------------------------------------------------------------------------
(* Shortest-distance algorithms *)

shortestDistanceToLine(point, line, ruler) == PointOnLine(ruler, line, point)

RECURSIVE ToLinesFrom(_, _, _, _, _)
ToLinesFrom(point, lines, ruler, k, d) ==
    IF k > Len(lines) THEN d
    ELSE LET tempDist == PointOnLine(ruler, lines[k], point)
         IN  IF IsZero(tempDist) THEN tempDist
             ELSE ToLinesFrom(point, lines, ruler, k + 1, StdMin(d, tempDist))

shortestDistanceToLines(point, lines, ruler) ==
    ToLinesFrom(point, lines, ruler, 1, Inf)

RECURSIVE ToPointsFrom(_, _, _, _, _)
ToPointsFrom(point, points, ruler, k, d) ==
    IF k > Len(points) THEN d
    ELSE LET tempDist == RulerDistance(ruler, point, points[k])
         IN  IF IsZero(tempDist) THEN tempDist
             ELSE ToPointsFrom(point, points, ruler, k + 1, StdMin(d, tempDist))

\* The same with the loop started at the second point.
shortestDistanceToPointsFromSecond(point, points, ruler) ==
    ToPointsFrom(point, points, ruler, 2, Inf)

shortestDistanceToPoints(point, points, ruler) ==
    ToPointsFrom(point, points, ruler, 1, Inf)

\* The body of shortestDistanceLineToLine's inner loop for the segments
\* p1-p2 of line1 and q1-q2 of line2: whether it returns 0, and 'dist' after
\* the four std::min statements (the last two both measure q1).
LinePairStep(d, p1, p2, q1, q2, ruler) ==
    LET d1 == StdMin(d, shortestDistanceToLine(p1, <<q1, q2>>, ruler))
        d2 == StdMin(d1, shortestDistanceToLine(p2, <<q1, q2>>, ruler))
        d3 == StdMin(d2, shortestDistanceToLine(q1, <<p1, p2>>, ruler))
        d4 == StdMin(d3, shortestDistanceToLine(q1, <<p1, p2>>, ruler))
    IN  [returns |-> lineIntersectLine(p1, p2, q1, q2), dist |-> d4]

\* The loop test  k < line.size() - 1  on std::size_t: for an empty line
\* size() - 1 wraps to 2^64 - 1, which is above every index, so the test
\* holds; otherwise it is the test on the integers.
IndexBelowSizeMinusOne(k, size) == size = 0 \/ k < size - 1

\* line[k] and line[k + 1] (0-based k) are elements of the line.
SegmentInRange(k, line) == k + 2 <= Len(line)

\* The value of a call whose behaviour is undefined: operator[] is applied
\* past the end of a line, or the assertion of lineDistanceToGeometry fails.
\* The action that makes the call draws what happens from UndefinedOutcomes.
Undefined == <<0, 0>>

\* The doubles a call may return from memory past the end of a line: -1, 0,
\* the whole numbers up to MaxStray, +infinity.
StrayNumbers == {MinusOne, <<0, 1>>, Inf} \cup {<<n, 1>> : n \in 1..MaxStray}

\* What a build does on undefined behaviour: the process dies ("crashed"),
\* the loop goes on through the 2^64 - 1 turns of the wrapped test and the
\* call does not return ("unending"), or the call returns a double ("done").
UndefinedOutcomes ==
    {[pc |-> "crashed", result |-> Undefined],
     [pc |-> "unending", result |-> Undefined]}
    \cup {[pc |-> "done", result |-> n] : n \in StrayNumbers}

RECURSIVE LineToLineFrom(_, _, _, _, _, _)
\* shortestDistanceLineToLine's loops from the indices (ii, jj) (0-based) on.
LineToLineFrom(l1, l2, ruler, ii, jj, d) ==
    IF ~IndexBelowSizeMinusOne(ii, Len(l1)) THEN d
    ELSE IF ~SegmentInRange(ii, l1) THEN Undefined  \* line1[i] past the end
    ELSE IF ~IndexBelowSizeMinusOne(jj, Len(l2))
         THEN LineToLineFrom(l1, l2, ruler, ii + 1, 0, d)
    ELSE IF ~SegmentInRange(jj, l2) THEN Undefined  \* line2[j] past the end
    ELSE LET step == LinePairStep(d, l1[ii + 1], l1[ii + 2],
                                  l2[jj + 1], l2[jj + 2], ruler)
         IN  IF step.returns THEN <<0, 1>>
             ELSE LineToLineFrom(l1, l2, ruler, ii, jj + 1, step.dist)

shortestDistanceLineToLine(l1, l2, ruler) ==
    LineToLineFrom(l1, l2, ruler, 0, 0, Inf)

-----------------------------------------------------------------------------
(* Geometries and the dispatch layer *)

\* A geometry is [type, coords], coords a sequence of sequences of points:
\* <<<<p>>>> for a Point, <<points>> for a MultiPoint, <<line>> for a
\* LineString, the lines for a MultiLineString, <<>> for every other shape.
PointGeom(p) == [type |-> "Point", coords |-> <<<<p>>>>]
MultiPointGeom(points) == [type |-> "MultiPoint", coords |-> <<points>>]
LineStringGeom(line) == [type |-> "LineString", coords |-> <<line>>]
MultiLineStringGeom(lines) == [type |-> "MultiLineString", coords |-> lines]
PolygonGeom == [type |-> "Polygon", coords |-> <<>>]

RECURSIVE PointsToLineFrom(_, _, _, _, _)
\* lineDistanceToGeometry, multi_point branch: no early return.
PointsToLineFrom(line, points, ruler, k, d) ==
    IF k > Len(points) THEN d
    ELSE PointsToLineFrom(line, points, ruler, k + 1,
                          StdMin(d, shortestDistanceToLine(points[k], line, ruler)))

RECURSIVE LineToLinesFrom(_, _, _, _, _)
RECURSIVE LineToLinesTurn(_, _, _, _, _, _)
\* lineDistanceToGeometry, multi_line_string branch.
LineToLinesFrom(line, lines, ruler, k, d) ==
    IF k > Len(lines) THEN d
    ELSE LineToLinesTurn(line, lines, ruler, k, d,
                         shortestDistanceLineToLine(line, lines[k], ruler))

\* One turn of that loop, tempDist computed.
LineToLinesTurn(line, lines, ruler, k, d, tempDist) ==
    IF tempDist = Undefined THEN Undefined
    ELSE IF IsZero(tempDist) THEN <<0, 1>>
    ELSE LineToLinesFrom(line, lines, ruler, k + 1, StdMin(d, tempDist))

pointDistanceToGeometry(point, geo, unit) ==
    LET ruler == CheapRuler(point[2], unit)
    IN  CASE geo.type = "Point" -> RulerDistance(ruler, point, geo.coords[1][1])
          [] geo.type = "MultiPoint" ->
                shortestDistanceToPoints(point, geo.coords[1], ruler)
          [] geo.type = "LineString" ->
                shortestDistanceToLine(point, geo.coords[1], ruler)
          [] geo.type = "MultiLineString" ->
                shortestDistanceToLines(point, geo.coords, ruler)
          [] OTHER -> Inf

\* assert(!line.empty()): on an empty line the assertion fails, and a build
\* without assertions reads line.front() of an empty vector.
lineDistanceToGeometry(line, geo, unit) ==
    IF line = <<>> THEN Undefined
    ELSE
    LET ruler == CheapRuler(line[1][2], unit)
    IN  CASE geo.type = "Point" ->
                shortestDistanceToLine(geo.coords[1][1], line, ruler)
          [] geo.type = "MultiPoint" ->
                PointsToLineFrom(line, geo.coords[1], ruler, 1, Inf)
          [] geo.type = "LineString" ->
                shortestDistanceLineToLine(line, geo.coords[1], ruler)
          [] geo.type = "MultiLineString" ->
                LineToLinesFrom(line, geo.coords, ruler, 1, Inf)
          [] OTHER -> MinusOne

RECURSIVE FeaturePointsFrom(_, _, _, _, _)
\* calculateDistance, multi_point branch.
FeaturePointsFrom(points, geo, unit, k, ret) ==
    IF k > Len(points) THEN ret
    ELSE LET d == pointDistanceToGeometry(points[k], geo, unit)
         IN  IF IsZero(d) THEN d
             ELSE FeaturePointsFrom(points, geo, unit, k + 1, StdMin(ret, d))

RECURSIVE FeatureLinesFrom(_, _, _, _, _)
RECURSIVE FeatureLinesTurn(_, _, _, _, _, _)
\* calculateDistance, multi_line_string branch.
FeatureLinesFrom(lines, geo, unit, k, ret) ==
    IF k > Len(lines) THEN ret
    ELSE FeatureLinesTurn(lines, geo, unit, k, ret,
                          lineDistanceToGeometry(lines[k], geo, unit))

\* One turn of that loop, dist computed.
FeatureLinesTurn(lines, geo, unit, k, ret, d) ==
    IF d = Undefined THEN Undefined
    ELSE IF IsZero(d) THEN d
    ELSE FeatureLinesFrom(lines, geo, unit, k + 1, StdMin(ret, d))

\* calculateDistance on converted = convertGeometry(feature, canonical).
calculateDistance(converted, geo, unit) ==
    CASE converted.type = "Point" ->
            pointDistanceToGeometry(converted.coords[1][1], geo, unit)
      [] converted.type = "MultiPoint" ->
            FeaturePointsFrom(converted.coords[1], geo, unit, 1, Inf)
      [] converted.type = "LineString" ->
            lineDistanceToGeometry(converted.coords[1], geo, unit)
      [] converted.type = "MultiLineString" ->
            FeatureLinesFrom(converted.coords, geo, unit, 1, Inf)
      [] OTHER -> MinusOne

-----------------------------------------------------------------------------
(* shortestDistanceLineToLine, one loop turn at a time *)

\* The ruler lineDistanceToGeometry hands to shortestDistanceLineToLine,
\* made at the latitude of line.front(); no distance is measured with it
\* when the line is empty.
LineRuler(line) ==
    CheapRuler(IF line = <<>> THEN 0 ELSE line[1][2], "Meters")

\* The lines of a call: any number of vertices, none included.
LineInputs == SeqsOf(GridPoints, 0, MaxVerts)

InitLine ==
    /\ line1 \in LineInputs
    /\ line2 \in LineInputs
    /\ i = 0
    /\ j = 0
    /\ dist = Inf
    /\ pc = "loop"
    /\ result = Nil
    /\ featureGeom = Nil /\ geoSet = Nil
    /\ value = Nil /\ ctxErrors = <<>> /\ node = Nil /\ params = Nil

\* for (j ...) { ... }: one turn of the inner loop.
LineInner ==
    /\ pc = "loop"
    /\ IndexBelowSizeMinusOne(i, Len(line1))
    /\ SegmentInRange(i, line1)
    /\ IndexBelowSizeMinusOne(j, Len(line2))
    /\ SegmentInRange(j, line2)
    /\ LET step == LinePairStep(dist, line1[i + 1], line1[i + 2],
                                line2[j + 1], line2[j + 2], LineRuler(line1))
       IN  IF step.returns
           THEN /\ result' = <<0, 1>>
                /\ pc' = "done"
                /\ UNCHANGED <<i, j, dist>>
           ELSE /\ dist' = step.dist
                /\ j' = j + 1
                /\ UNCHANGED <<i, pc, result>>
    /\ UNCHANGED <<line1, line2, featureGeom, geoSet, value, ctxErrors,
                   node, params>>

\* The inner loop ends: ++i, j = 0. p1 and p2 are references that no inner
\* turn has read, so on an empty line1 the loop goes on turn after turn; the
\* turns are followed up to MaxTurns.
LineOuter ==
    /\ pc = "loop"
    /\ IndexBelowSizeMinusOne(i, Len(line1))
    /\ ~IndexBelowSizeMinusOne(j, Len(line2))
    /\ SegmentInRange(i, line1) \/ i < MaxTurns
    /\ i' = i + 1
    /\ j' = 0
    /\ UNCHANGED <<pc, line1, line2, dist, featureGeom, geoSet, value,
                   ctxErrors, node, params, result>>

\* The outer loop ends: return dist.
LineReturn ==
    /\ pc = "loop"
    /\ ~IndexBelowSizeMinusOne(i, Len(line1))
    /\ result' = dist
    /\ pc' = "done"
    /\ UNCHANGED <<line1, line2, i, j, dist, featureGeom, geoSet, value,
                   ctxErrors, node, params>>

\* A loop test holds by the wrap of size() - 1 on an empty line, and
\* operator[] is applied past the end: line1[i], line1[i + 1] (bound to
\* references, read by the inner turns) or line2[j], line2[j + 1]. The
\* process dies, the loop never ends, or the call returns some double.
LineOutOfRange ==
    /\ pc = "loop"
    /\ IndexBelowSizeMinusOne(i, Len(line1))
    /\ IF SegmentInRange(i, line1)
       THEN IndexBelowSizeMinusOne(j, Len(line2)) /\ ~SegmentInRange(j, line2)
       ELSE TRUE
    /\ \E outcome \in UndefinedOutcomes :
          /\ result' = outcome.result
          /\ pc' = outcome.pc
    /\ UNCHANGED <<line1, line2, i, j, dist, featureGeom, geoSet, value,
                   ctxErrors, node, params>>

NextLine == LineInner \/ LineOuter \/ LineReturn \/ LineOutOfRange

SpecLine == InitLine /\ [][NextLine]_vars

-----------------------------------------------------------------------------
(* Geometry used to state the properties of shortestDistanceLineToLine *)

\* The pairs <<k, m>> of segments: k-th of line1, m-th of line2 (1-based).
SegmentPairs(l1, l2) == (1..(Len(l1) - 1)) \X (1..(Len(l2) - 1))

\* The segments a-b and c-d cross at one point interior to both: the
\* parameters t and u of a + t(b - a) = c + u(d - c) lie strictly in (0, 1).
ProperCross(a, b, c, d) ==
    LET den == perp(<<b[1] - a[1], b[2] - a[2]>>, <<d[1] - c[1], d[2] - c[2]>>)
        tn  == perp(<<c[1] - a[1], c[2] - a[2]>>, <<d[1] - c[1], d[2] - c[2]>>)
        un  == perp(<<c[1] - a[1], c[2] - a[2]>>, <<b[1] - a[1], b[2] - a[2]>>)
    IN  \/ den > 0 /\ 0 < tn /\ tn < den /\ 0 < un /\ un < den
        \/ den < 0 /\ den < tn /\ tn < 0 /\ den < un /\ un < 0

\* The point p lies on the closed segment a-b.
OnSegment(p, a, b) ==
    /\ perp(<<b[1] - a[1], b[2] - a[2]>>, <<p[1] - a[1], p[2] - a[2]>>) = 0
    /\ (a[1] <= p[1] /\ p[1] <= b[1]) \/ (b[1] <= p[1] /\ p[1] <= a[1])
    /\ (a[2] <= p[2] /\ p[2] <= b[2]) \/ (b[2] <= p[2] /\ p[2] <= a[2])

\* An end point of one of the two segments lies on the other segment.
Touch(a, b, c, d) ==
    \/ OnSegment(a, c, d) \/ OnSegment(b, c, d)
    \/ OnSegment(c, a, b) \/ OnSegment(d, a, b)

SomePairCrosses(l1, l2) ==
    \E s \in SegmentPairs(l1, l2) :
        ProperCross(l1[s[1]], l1[s[1] + 1], l2[s[2]], l2[s[2] + 1])

SomePairTouches(l1, l2) ==
    \E s \in SegmentPairs(l1, l2) :
        Touch(l1[s[1]], l1[s[1] + 1], l2[s[2]], l2[s[2] + 1])

\* The four end-point-to-opposite-segment distances of every segment pair.
EndpointDistances(l1, l2, ruler) ==
    UNION {LET p1 == l1[s[1]]
               p2 == l1[s[1] + 1]
               q1 == l2[s[2]]
               q2 == l2[s[2] + 1]
           IN  {SegmentSqDist(ruler, p1, q1, q2), SegmentSqDist(ruler, p2, q1, q2),
                SegmentSqDist(ruler, q1, p1, p2), SegmentSqDist(ruler, q2, p1, p2)}
           : s \in SegmentPairs(l1, l2)}

\* d is the least element of the non-empty set S of distances.
IsLeast(d, S) == (\E e \in S : DEq(d, e)) /\ (\A e \in S : ~Less(e, d))

-----------------------------------------------------------------------------
(* Properties of shortestDistanceLineToLine (under SpecLine) *)

\* C1: for lines of at least two vertices no segment of which crosses or
\* touches a segment of the other, shortestDistanceLineToLine returns the
\* minimum over all segment pairs of the four distances p1->(q1,q2),
\* p2->(q1,q2), q1->(p1,p2), q2->(p1,p2).
C1_MinOfFourEndpointDistances ==
    (/\ pc = "done"
     /\ Len(line1) >= 2 /\ Len(line2) >= 2
     /\ ~SomePairCrosses(line1, line2)
     /\ ~SomePairTouches(line1, line2))
    => IsLeast(result, EndpointDistances(line1, line2, LineRuler(line1)))

\* C2: when a segment of line1 crosses a segment of line2,
\* shortestDistanceLineToLine returns exactly 0, wherever the crossing pair
\* comes in the loops and whatever 'dist' held before it.
C2_CrossingGivesZero ==
    (pc = "done" /\ SomePairCrosses(line1, line2)) => result = <<0, 1>>

\* A crossing pair that is not the first pair examined, met with a finite
\* non-zero 'dist' accumulated from the pairs before it.
C2_Witness ==
    /\ pc = "done"
    /\ SegmentInRange(i, line1) /\ SegmentInRange(j, line2)
    /\ i + j > 0
    /\ dist # Inf /\ ~IsZero(dist)
    /\ ProperCross(line1[i + 1], line1[i + 2], line2[j + 1], line2[j + 2])
    /\ result = <<0, 1>>

\* C9: when segments of the two lines touch and none crosses, the
\* intersection test reports no crossing for any pair and
\* shortestDistanceLineToLine still returns exactly 0.
C9_TouchingGivesZero ==
    (/\ pc = "done"
     /\ SomePairTouches(line1, line2)
     /\ ~SomePairCrosses(line1, line2))
    => /\ \A s \in SegmentPairs(line1, line2) :
              ~lineIntersectLine(line1[s[1]], line1[s[1] + 1],
                                 line2[s[2]], line2[s[2] + 1])
       /\ IsZero(result)

-----------------------------------------------------------------------------
(* calculateDistance of a geometry against itself *)

\* A member line of a MultiLineString: no vertex, one (no segment) or two.
MemberLines == SeqsOf(DPoints, 0, 2)

DispatchGeoms ==
    {PointGeom(p) : p \in DPoints}
    \cup {MultiPointGeom(ps) : ps \in SeqsOf(DPoints, 0, MaxMembers)}
    \cup {LineStringGeom(l) : l \in SeqsOf(DPoints, 0, MaxVerts)}
    \cup {MultiLineStringGeom(ls) : ls \in SeqsOf(MemberLines, 0, MaxMembers)}
    \cup {PolygonGeom}

InitDispatch ==
    /\ featureGeom \in DispatchGeoms
    /\ geoSet = featureGeom
    /\ pc = "start"
    /\ result = Nil
    /\ line1 = Nil /\ line2 = Nil /\ i = 0 /\ j = 0 /\ dist = Inf
    /\ value = Nil /\ ctxErrors = <<>> /\ node = Nil /\ params = Nil

Calculate ==
    /\ pc = "start"
    /\ calculateDistance(featureGeom, geoSet, "Meters") # Undefined
    /\ result' = calculateDistance(featureGeom, geoSet, "Meters")
    /\ pc' = "done"
    /\ UNCHANGED <<line1, line2, i, j, dist, featureGeom, geoSet, value,
                   ctxErrors, node, params>>

\* The call meets an empty line: the assertion of lineDistanceToGeometry
\* fails, or shortestDistanceLineToLine reads past the end of the line.
CalculateUndefined ==
    /\ pc = "start"
    /\ calculateDistance(featureGeom, geoSet, "Meters") = Undefined
    /\ \E outcome \in UndefinedOutcomes :
          /\ result' = outcome.result
          /\ pc' = outcome.pc
    /\ UNCHANGED <<line1, line2, i, j, dist, featureGeom, geoSet, value,
                   ctxErrors, node, params>>

NextDispatch == Calculate \/ CalculateUndefined

SpecDispatch == InitDispatch /\ [][NextDispatch]_vars

SupportedShapes == {"Point", "MultiPoint", "LineString", "MultiLineString"}

\* The geometry has something to measure: a MultiPoint a point, a
\* LineString a segment, a MultiLineString a line with a segment.
HasExtent(g) ==
    CASE g.type = "Point" -> TRUE
      [] g.type = "MultiPoint" -> Len(g.coords[1]) >= 1
      [] g.type = "LineString" -> Len(g.coords[1]) >= 2
      [] g.type = "MultiLineString" ->
            \E k \in 1..Len(g.coords) : Len(g.coords[k]) >= 2
      [] OTHER -> FALSE

\* Every line of the geometry has a vertex.
NoEmptyLine(g) ==
    g.type \in {"LineString", "MultiLineString"}
    => \A k \in 1..Len(g.coords) : g.coords[k] # <<>>

\* C3 as stated: for every geometry x of a supported shape, with any number
\* of members or vertices, the dispatch layer's distance between x and x
\* is 0.
C3_SelfDistanceZero ==
    (/\ pc \in {"done", "crashed", "unending"}
     /\ geoSet = featureGeom
     /\ featureGeom.type \in SupportedShapes)
    => pc = "done" /\ IsZero(result)

\* C3 amended: for a geometry x of a supported shape none of whose lines is
\* empty, the call returns, and the distance between x and x is 0 when x is
\* a Point, a MultiPoint with a point, a LineString with two vertices or
\* more, or a MultiLineString with a line of two vertices or more; it is
\* +infinity for every other such geometry.
C3_SelfDistanceZeroWithExtent ==
    (/\ pc \in {"done", "crashed", "unending"}
     /\ geoSet = featureGeom
     /\ featureGeom.type \in SupportedShapes
     /\ NoEmptyLine(featureGeom))
    => /\ pc = "done"
       /\ IF HasExtent(featureGeom) THEN IsZero(result) ELSE result = Inf

\* A MultiLineString whose first line has no segment and whose second has
\* one, measured against itself.
C3_Witness ==
    /\ pc = "done"
    /\ geoSet = featureGeom
    /\ featureGeom.type = "MultiLineString"
    /\ Len(featureGeom.coords) = 2
    /\ Len(featureGeom.coords[1]) = 1
    /\ Len(featureGeom.coords[2]) = 2
    /\ featureGeom.coords[2][1] # featureGeom.coords[2][2]
    /\ IsZero(result)

-----------------------------------------------------------------------------
(* Expression values, reference documents, the parsing context *)

\* An element of an expression array: a string, an object (doc is what the
\* GeoJSON decoder makes of it) or anything else.
NoDoc == [ok |-> FALSE, message |-> <<>>, kind |-> "none", geoms |-> <<>>]
StringElem(str) == [kind |-> "string", str |-> str, doc |-> NoDoc]
ObjectElem(doc) == [kind |-> "object", str |-> "", doc |-> doc]
OtherElem == [kind |-> "other", str |-> "", doc |-> NoDoc]

\* What toGeoJSON returns for an object: a failure with the decoder's
\* message, or a geometry, a feature or a feature collection (geoms: the
\* geometry, the feature's geometry, the features' geometries in order).
DecodeFailure ==
    [ok |-> FALSE, message |-> <<"decoder error">>, kind |-> "none", geoms |-> <<>>]
GeometryDoc(g) == [ok |-> TRUE, message |-> <<>>, kind |-> "geometry", geoms |-> <<g>>]
FeatureDoc(g) == [ok |-> TRUE, message |-> <<>>, kind |-> "feature", geoms |-> <<g>>]
CollectionDoc(gs) ==
    [ok |-> TRUE, message |-> <<>>, kind |-> "featureCollection", geoms |-> gs]

\* An expression value: an array of elements, or something that is no array.
ArrayValue(elems) == [isArray |-> TRUE, elems |-> elems]
NotArray == [isArray |-> FALSE, elems |-> <<>>]

NoNode == [present |-> FALSE, geoJSONSource |-> NoDoc, geometries |-> PolygonGeom,
           unit |-> "Meters"]

\* util::toString of a size_t.
Digits == <<"0", "1", "2", "3", "4", "5", "6", "7", "8", "9">>
toString(n) == Digits[n + 1]

\* util::toString(arrayLength(value) - 1): the subtraction is unsigned and
\* wraps to 2^64 - 1 on an empty array.
toStringLengthMinusOne(length) ==
    IF length = 0 THEN "18446744073709551615" ELSE toString(length - 1)

CountMessage(count) ==
    <<"'distance' expression requires exactly one argument, but found ",
      count, " instead.">>
ArrayMessage ==
    <<"'distance' expression needs to be an array with one/two arguments.">>
GeometryTypeMessage ==
    <<"'distance' expression requires valid geojson source that contains Point/LineString geometry type.">>

-----------------------------------------------------------------------------
(* Argument parser *)

\* The same with the Kilometers comparison left out.
parseUnitNoKilometers(elems) ==
    IF Len(elems) = 3
    THEN LET input == IF elems[3].kind = "string" THEN elems[3].str ELSE "Meters"
         IN  IF input = "Inches" THEN "Inches"
             ELSE IF input = "Miles" THEN "Miles"
             ELSE "Meters"
    ELSE "Meters"

\* parseValue, the unit: Meters unless the third argument names another.
parseUnit(elems) ==
    IF Len(elems) = 3
    THEN LET input == IF elems[3].kind = "string" THEN elems[3].str ELSE "Meters"
         IN  IF input = "Inches" THEN "Inches"
             ELSE IF input = "Miles" THEN "Miles"
             ELSE IF input = "Kilometers" THEN "Kilometers"
             ELSE "Meters"
    ELSE "Meters"

\* parseValue: [ok, geojson, unit] and the errors it records in ctx.
parseValue(v) ==
    LET none(errors) == [ok |-> FALSE, geojson |-> NoDoc, unit |-> "Meters",
                         errors |-> errors]
    IN  IF ~v.isArray THEN none(<<ArrayMessage>>)
        ELSE IF Len(v.elems) # 2 /\ Len(v.elems) # 3
        THEN none(<<CountMessage(toStringLengthMinusOne(Len(v.elems)))>>)
        ELSE LET unit == parseUnit(v.elems)
                 argument1 == v.elems[2]
             IN  IF argument1.kind # "object" THEN none(<<ArrayMessage>>)
                 ELSE IF argument1.doc.ok /\ argument1.doc.message = <<>>
                 THEN [ok |-> TRUE, geojson |-> argument1.doc, unit |-> unit,
                       errors |-> <<>>]
                 ELSE none(<<argument1.doc.message, ArrayMessage>>)

-----------------------------------------------------------------------------
(* Distance expression node *)

\* apply_visitor(ToFeatureType(), geometry): the shape family of a geometry.
ToFeatureType(g) == g.type

\* The same with polygons let through.
getGeometryAnyShape(g) ==
    IF ToFeatureType(g) \in {"Point", "LineString", "Polygon"}
    THEN [ok |-> TRUE, errors |-> <<>>]
    ELSE [ok |-> FALSE, errors |-> <<GeometryTypeMessage>>]

\* getGeometry: whether the feature's geometry is returned, and the error
\* recorded in ctx when it is not.
getGeometry(g) ==
    IF ToFeatureType(g) = "Point" \/ ToFeatureType(g) = "LineString"
    THEN [ok |-> TRUE, errors |-> <<>>]
    ELSE [ok |-> FALSE, errors |-> <<GeometryTypeMessage>>]

NewDistance(geojson, geometries, unit) ==
    [present |-> TRUE, geoJSONSource |-> geojson, geometries |-> geometries,
     unit |-> unit]

RECURSIVE ParseCollectionFrom(_, _, _)
\* Distance::parse, feature_collection branch: the loop from feature k on,
\* errors being those getGeometry recorded so far.
ParseCollectionFrom(parsedValue, k, errors) ==
    IF k > Len(parsedValue.geojson.geoms) THEN [node |-> NoNode, errors |-> errors]
    ELSE LET g == parsedValue.geojson.geoms[k]
             ret == getGeometry(g)
         IN  IF ret.ok
             THEN [node |-> NewDistance(parsedValue.geojson, g, parsedValue.unit),
                   errors |-> errors]
             ELSE ParseCollectionFrom(parsedValue, k + 1, errors \o ret.errors)

RECURSIVE ParseCollectionLastFrom(_, _, _)
\* The same loop keeping the last feature that qualifies.
ParseCollectionLastFrom(parsedValue, k, errors) ==
    IF k < 1 THEN [node |-> NoNode, errors |-> errors]
    ELSE LET g == parsedValue.geojson.geoms[k]
             ret == getGeometry(g)
         IN  IF ret.ok
             THEN [node |-> NewDistance(parsedValue.geojson, g, parsedValue.unit),
                   errors |-> errors]
             ELSE ParseCollectionLastFrom(parsedValue, k - 1, errors \o ret.errors)

ParseCollectionLast(parsedValue) ==
    ParseCollectionLastFrom(parsedValue, Len(parsedValue.geojson.geoms), <<>>)

ParseCollection(parsedValue) == ParseCollectionFrom(parsedValue, 1, <<>>)

\* Distance::parse: the node returned (NoNode: none) and the errors recorded.
\* A decoded document is a geometry, a feature or a feature collection, so
\* the match's last, generic branch is never taken.
parse(v) ==
    LET parsedValue == parseValue(v)
    IN  IF ~parsedValue.ok THEN [node |-> NoNode, errors |-> parsedValue.errors]
        ELSE IF parsedValue.geojson.kind = "featureCollection"
        THEN ParseCollection(parsedValue)
        ELSE LET g == parsedValue.geojson.geoms[1]
                 ret == getGeometry(g)
             IN  IF ret.ok
                 THEN [node |-> NewDistance(parsedValue.geojson, g, parsedValue.unit),
                       errors |-> <<>>]
                 ELSE [node |-> NoNode, errors |-> ret.errors]

\* feature->getType().
getType(feature) == ToFeatureType(feature)

RECURSIVE ShiftLine(_, _)
ShiftLine(line, canonical) ==
    IF line = <<>> THEN <<>>
    ELSE <<<<Head(line)[1] + canonical, Head(line)[2]>>>>
         \o ShiftLine(Tail(line), canonical)

RECURSIVE ShiftLines(_, _)
ShiftLines(lines, canonical) ==
    IF lines = <<>> THEN <<>>
    ELSE <<ShiftLine(Head(lines), canonical)>> \o ShiftLines(Tail(lines), canonical)

\* convertGeometry(feature, canonical): the feature's tile-local geometry
\* placed at the tile's column.
convertGeometry(feature, canonical) ==
    [type |-> feature.type, coords |-> ShiftLines(feature.coords, canonical)]

EvaluationError(msg) == [kind |-> "error", message |-> msg, number |-> <<0, 1>>]
Number(d) == [kind |-> "number", message |-> "", number |-> d]

\* No result: the process died in the call, or the call does not return.
NoResult == [kind |-> "none", message |-> "", number |-> Undefined]

\* Distance::evaluate.
evaluate(self, p) ==
    IF ~p.hasFeature \/ ~p.hasCanonical
    THEN EvaluationError("distance expression requirs valid feature and canonical information.")
    ELSE IF getType(p.feature) = "Point"
    THEN Number(calculateDistance(convertGeometry(p.feature, p.canonical),
                                  self.geometries, self.unit))
    ELSE IF getType(p.feature) = "LineString"
    THEN Number(calculateDistance(convertGeometry(p.feature, p.canonical),
                                  self.geometries, self.unit))
    ELSE EvaluationError("distance expression currently only supports feature with Point geometry.")

-----------------------------------------------------------------------------
(* The node's life: parsed once, evaluated many times *)

\* Geometries of tile features, and of reference documents. The lines of a
\* feature are not empty: lineDistanceToGeometry asserts it.
NodeGeoms ==
    {PointGeom(p) : p \in NodePoints}
    \cup {LineStringGeom(l) : l \in SeqsOf(NodePoints, 2, 2)}
    \cup {MultiPointGeom(<<<<0, 0>>, <<1, 1>>>>),
          MultiLineStringGeom(<<<<<<0, 0>>, <<1, 1>>>>>>),
          PolygonGeom}

\* Geometries of reference documents: those, and the LineString with no
\* vertex, which the parser takes as any other LineString.
ReferenceGeoms == NodeGeoms \cup {LineStringGeom(<<>>)}

\* Geometries of the features of a feature collection.
CollectionGeoms ==
    {PointGeom(p) : p \in NodePoints}
    \cup {LineStringGeom(<<<<0, 0>>, <<1, 1>>>>),
          MultiPointGeom(<<<<0, 0>>, <<1, 1>>>>),
          PolygonGeom}

Docs ==
    {DecodeFailure}
    \cup {GeometryDoc(g) : g \in ReferenceGeoms}
    \cup {FeatureDoc(g) : g \in ReferenceGeoms}
    \cup {CollectionDoc(gs) : gs \in SeqsOf(CollectionGeoms, 0, MaxFeatures)}

FirstArguments == {ObjectElem(d) : d \in Docs} \cup {StringElem("geojson"), OtherElem}

UnitArguments ==
    {StringElem(u) : u \in {"Meters", "Metres", "Kilometers", "Miles", "Inches",
                            "meters", "Feet", ""}}
    \cup {OtherElem}

Operator == StringElem("distance")

\* The first n elements of an argument list longer than the parser reads.
LongList(n) == [k \in 1..n |-> IF k = 1 THEN Operator ELSE OtherElem]

Values ==
    {NotArray, ArrayValue(<<>>), ArrayValue(<<Operator>>)}
    \cup {ArrayValue(<<Operator, a>>) : a \in FirstArguments}
    \cup {ArrayValue(<<Operator, a, u>>) : a \in FirstArguments, u \in UnitArguments}
    \cup {ArrayValue(LongList(n)) : n \in 4..MaxArgs}

NoFeature == PolygonGeom
Params ==
    LET tiles == [hasCanonical : {TRUE}, canonical : 0..MaxTile]
                 \cup {[hasCanonical |-> FALSE, canonical |-> 0]}
        features == [hasFeature : {TRUE}, feature : NodeGeoms]
                    \cup {[hasFeature |-> FALSE, feature |-> NoFeature]}
    IN  {[hasFeature |-> f.hasFeature, feature |-> f.feature,
          hasCanonical |-> t.hasCanonical, canonical |-> t.canonical]
         : f \in features, t \in tiles}

NoParams == [hasFeature |-> FALSE, feature |-> NoFeature, hasCanonical |-> FALSE,
             canonical |-> 0]

Init ==
    /\ value \in Values
    /\ ctxErrors = <<>>
    /\ node = NoNode
    /\ params = NoParams
    /\ result = EvaluationError("")
    /\ pc = "unparsed"
    /\ line1 = Nil /\ line2 = Nil /\ i = 0 /\ j = 0 /\ dist = Inf
    /\ featureGeom = Nil /\ geoSet = Nil

\* Distance::parse(value, ctx).
Parse ==
    /\ pc = "unparsed"
    /\ LET r == parse(value)
       IN  /\ node' = r.node
           /\ ctxErrors' = ctxErrors \o r.errors
    /\ pc' = "parsed"
    /\ UNCHANGED <<line1, line2, i, j, dist, featureGeom, geoSet, value,
                   params, result>>

\* node.evaluate(params).
Evaluate ==
    /\ pc = "parsed"
    /\ node.present
    /\ \E p \in Params :
          /\ evaluate(node, p) # Number(Undefined)
          /\ params' = p
          /\ result' = evaluate(node, p)
    /\ pc' = "evaluated"
    /\ UNCHANGED <<line1, line2, i, j, dist, featureGeom, geoSet, value,
                   ctxErrors, node>>

\* node.evaluate(params) when calculateDistance reads past the end of the
\* reference line: the process dies, the call does not return, or it
\* returns a number made of what the stray read produced.
EvaluateUndefined ==
    /\ pc = "parsed"
    /\ node.present
    /\ \E p \in Params :
          /\ evaluate(node, p) = Number(Undefined)
          /\ params' = p
          /\ \E outcome \in UndefinedOutcomes :
                /\ result' = IF outcome.pc = "done"
                             THEN Number(outcome.result) ELSE NoResult
                /\ pc' = IF outcome.pc = "done" THEN "evaluated"
                         ELSE outcome.pc
    /\ UNCHANGED <<line1, line2, i, j, dist, featureGeom, geoSet, value,
                   ctxErrors, node>>

\* The evaluator takes the result: the node, unchanged, is ready for the
\* next feature.
Evaluated ==
    /\ pc = "evaluated"
    /\ params' = NoParams
    /\ result' = EvaluationError("")
    /\ pc' = "parsed"
    /\ UNCHANGED <<line1, line2, i, j, dist, featureGeom, geoSet, value,
                   ctxErrors, node>>

Next == Parse \/ Evaluate \/ EvaluateUndefined \/ Evaluated

Spec == Init /\ [][Next]_vars

-----------------------------------------------------------------------------
(* Properties of the node (under Spec) *)

\* C4: Distance::evaluate returns an evaluation error when the context has
\* no feature, no tile identity, or a feature whose geometry is not a single
\* Point or a single LineString; in every other case it returns a number.
C4_EvaluateErrorOrNumber ==
    pc \in {"evaluated", "crashed", "unending"}
    => IF \/ ~params.hasFeature
          \/ ~params.hasCanonical
          \/ params.feature.type \notin {"Point", "LineString"}
       THEN result.kind = "error"
       ELSE result.kind = "number"

\* The decoded reference document of a value the argument parser accepts.
HasDocument(v) ==
    /\ v.isArray
    /\ Len(v.elems) \in {2, 3}
    /\ v.elems[2].kind = "object"
    /\ v.elems[2].doc.ok

PointOrLineString(g) == g.type \in {"Point", "LineString"}

\* C5: the reference geometry of every node parse constructs is a Point or
\* a LineString, and a document all of whose geometries have other shapes
\* produces no node.
C5_ParsedGeometryShape ==
    pc # "unparsed"
    => /\ node.present => PointOrLineString(node.geometries)
       /\ (/\ HasDocument(value)
           /\ \A k \in 1..Len(value.elems[2].doc.geoms) :
                 ~PointOrLineString(value.elems[2].doc.geoms[k]))
          => ~node.present

\* A node parsed from a single feature with a LineString.
C5_Witness ==
    /\ pc = "parsed"
    /\ node.present
    /\ node.geoJSONSource.kind = "feature"
    /\ node.geometries.type = "LineString"

\* C6: from a feature collection, parse stores the geometry of the first
\* feature, in document order, whose geometry is a Point or a LineString.
C6_FirstQualifyingFeature ==
    (/\ pc # "unparsed"
     /\ HasDocument(value)
     /\ value.elems[2].doc.kind = "featureCollection")
    => LET geoms == value.elems[2].doc.geoms
       IN  \A k \in 1..Len(geoms) :
              (/\ PointOrLineString(geoms[k])
               /\ \A m \in 1..(k - 1) : ~PointOrLineString(geoms[m]))
              => node.present /\ node.geometries = geoms[k]

\* A collection of an unsupported feature, a qualifying one and a different
\* qualifying one: the middle one is stored.
C6_Witness ==
    /\ pc = "parsed"
    /\ HasDocument(value)
    /\ value.elems[2].doc.kind = "featureCollection"
    /\ Len(value.elems[2].doc.geoms) = 3
    /\ ~PointOrLineString(value.elems[2].doc.geoms[1])
    /\ PointOrLineString(value.elems[2].doc.geoms[2])
    /\ PointOrLineString(value.elems[2].doc.geoms[3])
    /\ value.elems[2].doc.geoms[2] # value.elems[2].doc.geoms[3]
    /\ node.present
    /\ node.geometries = value.elems[2].doc.geoms[2]

\* The arguments of a list: its elements after the operator name.
ArgumentCount(elems) == IF Len(elems) = 0 THEN 0 ELSE Len(elems) - 1

\* C7: the argument parser accepts only lists of length 2 or 3; for a list
\* of any other length it returns nothing and records one error whose
\* message names the number of arguments of that list.
C7_WrongLengthNamesArgumentCount ==
    (pc # "unparsed" /\ value.isArray)
    => /\ node.present => Len(value.elems) \in {2, 3}
       /\ Len(value.elems) \notin {2, 3}
          => /\ ~node.present
             /\ ctxErrors = <<CountMessage(toString(ArgumentCount(value.elems)))>>

Units == {"Meters", "Kilometers", "Miles", "Inches"}

\* The unit the third argument names, matched case-sensitively.
NamedUnit(elems) ==
    IF Len(elems) < 3 \/ elems[3].kind # "string" THEN "Meters"
    ELSE CASE elems[3].str \in {"Meters", "Metres"} -> "Meters"
           [] elems[3].str = "Kilometers" -> "Kilometers"
           [] elems[3].str = "Miles" -> "Miles"
           [] elems[3].str = "Inches" -> "Inches"
           [] OTHER -> "Meters"

\* C8: the unit of a parsed node is one of the four units: Meters with no
\* third argument, the unit the third argument names otherwise, and Meters
\* for any other third argument, which records no parse error.
C8_UnitChoice ==
    pc # "unparsed"
    => /\ node.present => node.unit \in Units /\ node.unit = NamedUnit(value.elems)
       /\ (/\ HasDocument(value)
           /\ value.elems[2].doc.kind # "featureCollection"
           /\ PointOrLineString(value.elems[2].doc.geoms[1]))
          => node.present /\ ctxErrors = <<>>

\* A third argument in the wrong case: Meters, and no error.
C8_Witness ==
    /\ pc = "parsed"
    /\ Len(value.elems) = 3
    /\ value.elems[3] = StringElem("meters")
    /\ node.present
    /\ node.unit = "Meters"
    /\ ctxErrors = <<>>

\* C10: parse returns a node if and only if it recorded no error in the
\* parsing context.
C10_NodeIffNoError ==
    pc # "unparsed" => (node.present <=> ctxErrors = <<>>)

=============================================================================
